---- MODULE Spec2Model ----
(***************************************************************************)
(* Model of the WAPA conversational tool-dispatch loop:                    *)
(*   WhatsappService.webhookResponse  (orchestrator, one turn per message) *)
(*   AIService.onboardingConversation / tooledConversation                 *)
(*   ToolService.changeEmail / changeNicename / getWalletBalance /         *)
(*   sendMoney, UserService.registerUserForFirstTime, CryptoService.*      *)
(* A turn is one webhookResponse invocation; every await of the code is a  *)
(* step of the turn.  Strings are sequences of tokens: <<>> is the empty   *)
(* string, <<" ">> a whitespace-only one.                                   *)
(***************************************************************************)
EXTENDS Integers, Sequences, FiniteSets, TLC

\* ------------------------------------------------------------------ bounds
MaxWallets == 2
\* webhook events delivered in one behaviour
MaxTurns == 2
Slots == {1}
\* messages in the raw history handed to prepareConversationHistory
MaxMessages == 3
\* the limit argument of prepareConversationHistory ranges over 1..MaxLimit
MaxLimit == 2

\* --------------------------------------------------------------- constants
Handles == {"h1", "h2"}
\* process.env.WHATSAPP_NUMBER, the bound number of the deployment
WHATSAPP_NUMBER == "h1"
\* CryptoService.fundWallet sends 50 tokens to a new wallet
FundAmount == 50
Apology == <<"Lo siento, hubo un error al procesar tu solicitud.">>

Names == {<<>>, <<" ">>, <<"Ana">>}
Emails == {<<>>, <<"a@x">>}
Amounts == {0, -10, 30, 60}

\* ----------------------------------------------------------------- strings
\* JS truthiness of a string: non-empty
Truthy(s) == Len(s) > 0

RECURSIVE TrimLeft(_)
TrimLeft(s) == IF s # <<>> /\ Head(s) = " " THEN TrimLeft(Tail(s)) ELSE s

RECURSIVE TrimRight(_)
TrimRight(s) ==
    IF s # <<>> /\ s[Len(s)] = " " THEN TrimRight(SubSeq(s, 1, Len(s) - 1)) ELSE s

\* String.prototype.trim
Trim(s) == TrimRight(TrimLeft(s))

\* String.prototype.replace(token, value): first occurrence only
RECURSIVE ReplaceFirst(_, _, _)
ReplaceFirst(s, tok, val) ==
    IF s = <<>> THEN <<>>
    ELSE IF Head(s) = tok THEN <<val>> \o Tail(s)
    ELSE <<Head(s)>> \o ReplaceFirst(Tail(s), tok, val)

\* ------------------------------------------------------------------- state
VARIABLES
    users,      \* the user table, keyed by idWa (unique)
    tokenBal,   \* on-chain token balance of every generated wallet
    wallets,    \* the wallets generated so far (their addresses)
    delivered,  \* number of webhook events delivered so far
    turns,      \* the webhookResponse invocations
    conv        \* one preparation of the completion input (tooledConversation)

vars == <<users, tokenBal, wallets, delivered, turns, conv>>

\* a row of the user table; exists = FALSE is "no row" (findFirst -> null)
NoUser == [exists |-> FALSE, nicename |-> <<>>, email |-> <<>>, wallet |-> 0]

Ev(op, who) == [op |-> op, who |-> who]

NoArgs == [email |-> <<>>, nicename |-> <<>>, walletAddress |-> 0,
           hasAmount |-> FALSE, amount |-> 0,
           hasContact |-> FALSE, contactName |-> <<>>, contactNumber |-> "",
           hasCC |-> FALSE, continueConversation |-> <<>>, idWa |-> ""]

\* response.output[0]: its type, name and parsed arguments
NoResp == [type |-> "none", name |-> "", args |-> NoArgs]

IdleTurn == [pc |-> "idle", from |-> "", fromMe |-> FALSE, notifyName |-> <<>>,
             user |-> NoUser, mode |-> "NONE",
             resp |-> NoResp, args |-> NoArgs,
             tuser |-> NoUser, balance |-> 0, chainBalance |-> 0,
             recipientFound |-> FALSE,
             recipient |-> NoUser,
             wallet |-> 0, recipientWalletAddress |-> 0,
             toolError |-> "", reply |-> [to |-> "", kind |-> "false", text |-> <<>>],
             sent |-> <<>>, outcome |-> "none",
             error |-> "", calls |-> <<>>, flows |-> {}]

\* a conversation record: a raw message of the transport (timestamp, body,
\* fromMe) or an entry of the completion input (role, type, text); a field the
\* object does not have is undefined (has* = FALSE, fromMe falsy)
Message(ts, hasBody, body, fromMe) ==
    [hasTimestamp |-> TRUE, timestamp |-> ts, hasBody |-> hasBody, body |-> body,
     fromMe |-> fromMe, role |-> "", type |-> "", text |-> <<>>]

Entry(role, type, text) ==
    [hasTimestamp |-> FALSE, timestamp |-> 0, hasBody |-> FALSE, body |-> <<>>,
     fromMe |-> FALSE, role |-> role, type |-> type, text |-> text]

\* the argument rawMessages: null, or an array
Raw(null, items) == [null |-> null, items |-> items]

IdleConv == [pc |-> "idle", raw |-> Raw(TRUE, <<>>), limit |-> 1, error |-> "",
             recent |-> <<>>, history |-> <<>>, reselected |-> <<>>,
             again |-> <<>>, input |-> <<>>]

Init ==
    /\ conv = IdleConv
    /\ users = [h \in Handles |-> NoUser]
    /\ tokenBal = [w \in 1..MaxWallets |-> 0]
    /\ wallets = {}
    /\ delivered = 0
    /\ turns = [t \in Slots |-> IdleTurn]

Set(t, r) == turns' = [turns EXCEPT ![t] = r]

Log(r, evs) == [r EXCEPT !.calls = @ \o evs]

\* the wallet object {address, privateKey, mnemonic} of wallet w is handed to
\* a sink: the completion input, console.log, the token contract, the store;
\* w = 0 is "no wallet object"
Flow(r, sink, w) ==
    IF w = 0 THEN r ELSE [r EXCEPT !.flows = @ \cup {[sink |-> sink, wallet |-> w]}]

\* the address of the next generated wallet (0: the model's supply is used up);
\* a wallet whose funding failed is referenced nowhere and its address is reused
FreshWallet ==
    IF 1..MaxWallets \subseteq wallets THEN 0
    ELSE CHOOSE w \in 1..MaxWallets \ wallets :
            \A v \in 1..MaxWallets \ wallets : w <= v

\* a catch that lets a failed completion call be made a second time
Throw_RetryCompletion(r, msg) ==
    IF r.pc \in {"onboarding", "tooled"}
       /\ Len(SelectSeq(r.calls, LAMBDA e : e.op = "complete")) < 2
    THEN r
    ELSE [Log(r, <<Ev("stopTyping", r.from)>>) EXCEPT
            !.pc = "done", !.outcome = "threw", !.error = msg]

\* the catch block of webhookResponse: stopTyping, then rethrow
Throw(r, msg) ==
    [Log(r, <<Ev("stopTyping", r.from)>>) EXCEPT
        !.pc = "done", !.outcome = "threw", !.error = msg]

\* ------------------------------------------------------- UserService (db)
\* UserService.registerUserForFirstTime + UserService.create: the row stored
\* for a first contact; data.email = idWa, metas default {}
registerUserForFirstTime(idWa, nicename) ==
    [exists |-> TRUE, nicename |-> nicename, email |-> <<idWa>>, wallet |-> 0]

\* UserService.updateUserWallet(idWa, {wallet}): persists the wallet in metas
updateUserWallet(row, w) == [row EXCEPT !.wallet = w]

\* UserService.updateOnboardingData(idWa, onboardingResponse)
updateOnboardingData(row, data) ==
    [row EXCEPT !.email = data.email, !.nicename = data.nicename]

\* --------------------------------------------------- orchestrator (webhook)
\* a gate that tests the email only
Gate_EmailOnly(user) ==
    IF ~Truthy(user.email) THEN "ONBOARDING" ELSE "OPERATIONAL"

\* a gate that tests the display name only
Gate_NameOnly(user) ==
    IF ~Truthy(user.nicename) THEN "ONBOARDING" ELSE "OPERATIONAL"

\* the onboarding gate of webhookResponse: !userData.nicename || !userData.email
Gate(user) ==
    IF ~Truthy(user.nicename) \/ ~Truthy(user.email) THEN "ONBOARDING"
    ELSE "OPERATIONAL"

\* the context handed to both conversations: nicename, email and the stored
\* wallet object of the row read at the head of the turn (user.metas.wallet || '')
userData(user) == [nicename |-> user.nicename, email |-> user.email,
                   wallet |-> user.wallet]

\* the filter at the head of webhookResponse: only fromMe is tested
Ignored(from, fromMe) == fromMe

NewTurn(from, fromMe, notifyName) ==
    [IdleTurn EXCEPT !.from = from, !.fromMe = fromMe, !.notifyName = notifyName,
        !.pc = IF Ignored(from, fromMe) THEN "done" ELSE "verify",
        !.outcome = IF Ignored(from, fromMe) THEN "returned" ELSE "running"]

\* a webhook event arrives; turns are delivered one at a time
Receive(t) ==
    /\ \A u \in Slots : turns[u].pc \in {"idle", "done"}
    /\ delivered < MaxTurns
    /\ delivered' = delivered + 1
    /\ \E from \in Handles, fromMe \in BOOLEAN, nn \in Names :
          Set(t, NewTurn(from, fromMe, nn))
    /\ UNCHANGED <<users, tokenBal, wallets, conv>>

\* a head of the turn that gives a wallet to new rows only
afterVerify_NewRowsOnly(u) == IF ~u.exists THEN "register" ELSE "gate"

\* the branches after the lookup: if(!user) register; if(!user.metas.wallet)
\* generate, fund and store a wallet; then the gate
afterVerify(u) ==
    IF ~u.exists THEN "register"
    ELSE IF u.wallet = 0 THEN "genWallet" ELSE "gate"

\* UserService.verifyUserExistence(from)
WVerify(t) ==
    LET r == turns[t]
        u == users[r.from] IN
    /\ r.pc = "verify"
    /\ Set(t, [Log(r, <<Ev("findUser", r.from)>>) EXCEPT
            !.user = u,
            !.pc = afterVerify(u)])
    /\ UNCHANGED <<users, tokenBal, wallets, delivered, conv>>

\* UserService.registerUserForFirstTime(from, {nicename: notifyName || ''});
\* idWa is unique in the schema, so a second row for the handle is refused
WRegister(t) ==
    LET r == turns[t]
        row == registerUserForFirstTime(r.from, r.notifyName) IN
    /\ r.pc = "register"
    /\ IF users[r.from].exists
       THEN /\ Set(t, Throw(Log(r, <<Ev("createUser", r.from)>>), "Unique constraint"))
            /\ UNCHANGED users
       ELSE /\ users' = [users EXCEPT ![r.from] = row]
            /\ Set(t, [Log(r, <<Ev("createUser", r.from)>>) EXCEPT
                    !.user = row, !.pc = "genWallet"])
    /\ UNCHANGED <<tokenBal, wallets, delivered, conv>>

\* CryptoService.generateWallet() for a user without metas.wallet
WGenerateWallet(t) ==
    LET r == turns[t] IN
    /\ r.pc = "genWallet"
    /\ FreshWallet # 0
    /\ wallets' = wallets \cup {FreshWallet}
    /\ Set(t, [Log(r, <<Ev("generateWallet", "webhook")>>) EXCEPT
            !.wallet = FreshWallet, !.pc = "fundWallet"])
    /\ UNCHANGED <<users, tokenBal, delivered, conv>>

\* CryptoService.fundWallet(wallet.address): bootstrap transfer, may raise
WFundWallet(t) ==
    LET r == turns[t]
        r1 == Log(r, <<Ev("fundWallet", "webhook")>>) IN
    /\ r.pc = "fundWallet"
    /\ \/ /\ tokenBal' = [tokenBal EXCEPT ![r.wallet] = @ + FundAmount]
          /\ Set(t, [r1 EXCEPT !.pc = "saveWallet"])
          /\ UNCHANGED wallets
       \/ /\ Set(t, Throw(r1, "Error sending tokens"))
          /\ wallets' = wallets \ {r.wallet}
          /\ UNCHANGED tokenBal
    /\ UNCHANGED <<users, delivered, conv>>

\* userService.updateUserWallet(from, {wallet}); the local user is not re-read
WUpdateWallet(t) ==
    LET r == turns[t] IN
    /\ r.pc = "saveWallet"
    /\ users' = [users EXCEPT ![r.from] = updateUserWallet(@, r.wallet)]
    /\ Set(t, [Flow(Log(r, <<Ev("updateUserWallet", r.from)>>), "store", r.wallet)
                EXCEPT !.pc = "gate"])
    /\ UNCHANGED <<tokenBal, wallets, delivered, conv>>

\* the gate, then startTyping (onboarding) or getConversationHistory and
\* startTyping (tooled)
WGate(t) ==
    LET r == turns[t]
        m == Gate(r.user) IN
    /\ r.pc = "gate"
    /\ IF m = "ONBOARDING"
       THEN Set(t, [Log(r, <<Ev("startTyping", r.from)>>) EXCEPT
                !.mode = m, !.pc = "onboarding"])
       ELSE Set(t, [Log(r, <<Ev("getConversationHistory", r.from),
                              Ev("startTyping", r.from)>>) EXCEPT
                !.mode = m, !.pc = "tooled"])
    /\ UNCHANGED <<users, tokenBal, wallets, delivered, conv>>

Text(to, s) == [to |-> to, kind |-> "text", text |-> s]
\* tooledConversation may return false instead of a string
NotText(to) == [to |-> to, kind |-> "false", text |-> <<>>]

\* AIService.onboardingConversation: one completion call with the onboarding
\* schema; a rejected call or unparsable output_text raises
OnboardingCall(t) ==
    LET r == turns[t]
        r1 == Flow(Log(r, <<Ev("complete", "onboarding")>>),
                   "completion", userData(r.user).wallet) IN
    /\ r.pc = "onboarding"
    /\ \/ \E e \in Emails, n \in Names, cc \in {<<>>, <<"dime">>} :
             Set(t, [r1 EXCEPT !.pc = "onbUpdate",
                    !.resp = [NoResp EXCEPT !.type = "onboarding"],
                    !.args = [NoArgs EXCEPT !.email = e, !.nicename = n,
                                 !.hasCC = TRUE, !.continueConversation = cc]])
       \/ \E msg \in {"completion unreachable", "malformed completion"} :
             Set(t, Throw(r1, msg))
    /\ UNCHANGED <<users, tokenBal, wallets, delivered, conv>>

\* userService.updateOnboardingData(from, onboardingResponse)
OnboardingUpdate(t) ==
    LET r == turns[t] IN
    /\ r.pc = "onbUpdate"
    /\ users' = [users EXCEPT ![r.from] = updateOnboardingData(@, r.args)]
    /\ Set(t, [Log(r, <<Ev("updateUser", r.from)>>) EXCEPT !.pc = "onbSend"])
    /\ UNCHANGED <<tokenBal, wallets, delivered, conv>>

\* an onboarding turn that ends without sending the continuation message
OnboardingSend_Silent(t) ==
    LET r == turns[t] IN
    /\ r.pc = "onbSend"
    /\ Set(t, [r EXCEPT !.pc = "done", !.outcome = "returned"])
    /\ UNCHANGED <<users, tokenBal, wallets, delivered, conv>>

\* WahaService.sendText(from, onboardingResponse.continue_conversation); return
OnboardingSend(t) ==
    LET r == turns[t] IN
    /\ r.pc = "onbSend"
    /\ Set(t, [Log(r, <<Ev("sendText", r.from)>>) EXCEPT
            !.sent = @ \o <<Text(r.from, r.args.continueConversation)>>,
            !.pc = "done", !.outcome = "returned"])
    /\ UNCHANGED <<users, tokenBal, wallets, delivered, conv>>

\* --------------------------------------------------------- completion output
\* continueConversation of the argument object (absent, empty, a template, a
\* template that repeats a token and holds an unknown one) and an actor
\* identity the model may put into the argument object itself
CCArgs ==
    {[hasCC |-> FALSE, cc |-> <<>>, idWa |-> ""],
     [hasCC |-> TRUE, cc |-> <<"%amount%", "%name%", "%foo%", "%amount%">>, idWa |-> ""],
     [hasCC |-> TRUE, cc |-> <<>>, idWa |-> ""],
     [hasCC |-> TRUE, cc |-> <<"ok", "%amount%">>, idWa |-> ""],
     [hasCC |-> TRUE, cc |-> <<"ok", "%amount%">>, idWa |-> "h2"],
     [hasCC |-> TRUE, cc |-> <<"ok", "%amount%">>, idWa |-> "h1"]}

WithCC(a, c) ==
    [a EXCEPT !.hasCC = c.hasCC, !.continueConversation = c.cc, !.idWa = c.idWa]

Contact(n, h) == [hasContact |-> TRUE, contactName |-> n, contactNumber |-> h]
GoodContacts == {Contact(<<"Pedro">>, h) : h \in Handles}
BadContacts ==
    {[hasContact |-> FALSE, contactName |-> <<>>, contactNumber |-> ""],
     Contact(<<>>, ""), Contact(<<>>, "h2"), Contact(<<"Pedro">>, "")}
SendArgs(a, c) ==
    [NoArgs EXCEPT !.hasAmount = TRUE, !.amount = a, !.hasContact = c.hasContact,
        !.contactName = c.contactName, !.contactNumber = c.contactNumber]

ArgsOf(name) ==
    CASE name = "changeEmail" -> {[NoArgs EXCEPT !.email = e] : e \in Emails}
      [] name = "changeNicename" -> {[NoArgs EXCEPT !.nicename = n] : n \in Names}
      [] name = "getWalletBalance" ->
            {[NoArgs EXCEPT !.walletAddress = w] : w \in {0, 1}}
      [] name = "sendMoney" ->
            {SendArgs(a, c) : a \in Amounts \ {0}, c \in GoodContacts}
            \cup {SendArgs(30, c) : c \in BadContacts}
            \cup {SendArgs(0, Contact(<<"Pedro">>, "h2")),
                  [SendArgs(0, Contact(<<"Pedro">>, "h2")) EXCEPT !.hasAmount = FALSE]}
      [] OTHER -> {NoArgs}

\* the static methods of ToolService
ToolServiceMethods == {"changeEmail", "changeNicename", "getWalletBalance", "sendMoney"}
\* names a function_call may carry: the catalog (generalTools) and a stray one
CallNames == ToolServiceMethods \cup {"continueConversation", "unknownTool"}

\* ------------------------------------------------------- tooledConversation
\* an injection that keeps an idWa already present in the arguments
InjectActor_KeepSupplied(args, from) ==
    IF args.idWa # "" THEN args ELSE [args EXCEPT !.idWa = from]

\* args.idWa = from
InjectActor(args, from) == [args EXCEPT !.idWa = from]

\* lines 284-297: return args.continueConversation if truthy, else false
Finish(r) ==
    [r EXCEPT !.pc = "send",
        !.reply = IF r.args.hasCC /\ Truthy(r.args.continueConversation)
                  THEN Text(r.from, r.args.continueConversation)
                  ELSE NotText(r.from)]

\* a catch that records the error and leaves the model's text in place
ToolCatch_KeepText(r, msg) == Finish([r EXCEPT !.toolError = msg])

\* the catch around the handler call: the fixed apology replaces the text
ToolCatch(r, msg) ==
    Finish([r EXCEPT !.toolError = msg, !.args.hasCC = TRUE,
                     !.args.continueConversation = Apology])

\* a return that runs the %amount% substitution for every handler
ToolReturn_Formatted(r) ==
    Finish([r EXCEPT !.args.continueConversation = ReplaceFirst(@, "%amount%", "0")])

\* handler returned without raising and no placeholder is defined for it
ToolReturn(r) == Finish(r)

\* the dispatcher of tooledConversation: any static method of ToolService is
\* called with the parsed arguments, no required-field check is made
Dispatch(r, name, args) ==
    IF name \in ToolServiceMethods
    THEN [Log(r, <<Ev("handler", name)>>) EXCEPT
            !.args = InjectActor(args, r.from), !.pc = name]
    ELSE Finish([r EXCEPT !.args = args])

\* openai.responses.create with the tool catalog, then the branch on
\* response.output[0].type
ToolCall(t) ==
    LET r == turns[t]
        r1 == Flow(Log(r, <<Ev("complete", "tooled")>>),
                   "completion", userData(r.user).wallet) IN
    /\ r.pc = "tooled"
    /\ \/ \E msg \in {"completion unreachable", "malformed completion"} :
             Set(t, Throw(r1, msg))
       \/ Set(t, [r1 EXCEPT !.resp = [NoResp EXCEPT !.type = "message"],
                            !.reply = Text(r.from, <<"hola">>), !.pc = "send"])
       \/ Set(t, [r1 EXCEPT !.resp = [NoResp EXCEPT !.type = "reasoning"],
                            !.reply = NotText(r.from), !.pc = "send"])
       \/ \E name \in CallNames : \E a \in ArgsOf(name) :
          \E c \in CCArgs :
             Set(t, Dispatch([r1 EXCEPT !.resp = [type |-> "function_call",
                                   name |-> name, args |-> WithCC(a, c)]],
                             name, WithCC(a, c)))
    /\ UNCHANGED <<users, tokenBal, wallets, delivered, conv>>

\* WahaService.sendText(from, tooledResponse); WahaService.stopTyping(from)
WSend(t) ==
    LET r == turns[t] IN
    /\ r.pc = "send"
    /\ Set(t, [Log(r, <<Ev("sendText", r.from), Ev("stopTyping", r.from)>>) EXCEPT
            !.sent = @ \o <<r.reply>>, !.pc = "done", !.outcome = "returned"])
    /\ UNCHANGED <<users, tokenBal, wallets, delivered, conv>>

\* ------------------------------------------------------------- ToolService
\* prisma.user.findFirst({where: {idWa}})
FindFirst(idWa) == IF idWa \in Handles THEN users[idWa] ELSE NoUser

\* an update that writes the argument as it came
changeEmailData_NoFallback(args, user) == args.email

\* data of changeEmail's update: funcArgs.email || user.email
changeEmailData(args, user) == IF Truthy(args.email) THEN args.email ELSE user.email

\* an update that writes the name as it came
changeNicenameData_NoFallback(args, user) == args.nicename

\* data of changeNicename's update: funcArgs.nicename || user.nicename
changeNicenameData(args, user) ==
    IF Truthy(args.nicename) THEN args.nicename ELSE user.nicename

\* first await of changeEmail / changeNicename / getWalletBalance: the lookup
ToolFindUser(t) ==
    LET r == turns[t]
        u == FindFirst(r.args.idWa)
        r1 == Log(r, <<Ev("tool.findUser", r.args.idWa)>>) IN
    /\ r.pc \in {"changeEmail", "changeNicename", "getWalletBalance"}
    /\ IF ~u.exists
       THEN Set(t, ToolCatch(r1, "User not found"))
       ELSE Set(t, [r1 EXCEPT !.tuser = u,
                !.pc = CASE r.pc = "changeEmail" -> "changeEmailUpdate"
                         [] r.pc = "changeNicename" -> "changeNicenameUpdate"
                         [] OTHER -> "getTokenBalance"])
    /\ UNCHANGED <<users, tokenBal, wallets, delivered, conv>>

\* changeEmail: prisma.user.update({where: {id: user.id}, data: {email}})
changeEmail(t) ==
    LET r == turns[t] IN
    /\ r.pc = "changeEmailUpdate"
    /\ users' = [users EXCEPT ![r.args.idWa].email = changeEmailData(r.args, r.tuser)]
    /\ Set(t, ToolReturn(Log(r, <<Ev("tool.updateUser", r.args.idWa)>>)))
    /\ UNCHANGED <<tokenBal, wallets, delivered, conv>>

\* changeNicename: prisma.user.update({where: {id: user.id}, data: {nicename}})
changeNicename(t) ==
    LET r == turns[t] IN
    /\ r.pc = "changeNicenameUpdate"
    /\ users' = [users EXCEPT
            ![r.args.idWa].nicename = changeNicenameData(r.args, r.tuser)]
    /\ Set(t, ToolReturn(Log(r, <<Ev("tool.updateUser", r.args.idWa)>>)))
    /\ UNCHANGED <<tokenBal, wallets, delivered, conv>>

\* the %amount% substitution applied after getWalletBalance; replace on an
\* undefined continueConversation raises inside the try
FormatBalance(r, bal) ==
    IF ~r.args.hasCC THEN ToolCatch(r, "TypeError")
    ELSE Finish([r EXCEPT !.args.continueConversation =
                    ReplaceFirst(@, "%amount%", ToString(bal))])

\* getWalletBalance: CryptoService.getTokenBalance(funcArgs.walletAddress, ...)
getWalletBalance(t) ==
    LET r == turns[t]
        r1 == Log(r, <<Ev("getTokenBalance", "tool")>>)
        w == r.args.walletAddress IN
    /\ r.pc = "getTokenBalance"
    /\ \/ /\ w # 0
          /\ Set(t, FormatBalance([r1 EXCEPT !.balance = tokenBal[w]], tokenBal[w]))
       \/ Set(t, ToolCatch(r1, "Error getting token balance"))
    /\ UNCHANGED <<users, tokenBal, wallets, delivered, conv>>

\* the argument checks at the head of sendMoney; "" when all pass
sendMoneyValidate(args) ==
    IF ~args.hasAmount \/ args.amount = 0 THEN "Amount is required"
    ELSE IF ~args.hasContact THEN "Contact is required"
    ELSE IF ~Truthy(args.contactName) /\ args.contactNumber = ""
         THEN "Contact name and phone number are required"
    ELSE IF ~Truthy(args.contactName) THEN "Contact name is required"
    ELSE IF args.contactNumber = "" THEN "Contact phone number is required"
    ELSE ""

\* a sendMoney without its balance check
InsufficientBalance_NoCheck(balance, amount) == FALSE

\* sendMoney: balance.balance < amount
InsufficientBalance(balance, amount) == balance < amount

\* a sendToken that leaves the balance to the contract
sendTokenRaises_AmountOnly(balance, amount) == amount < 0

\* CryptoService.sendToken raises instead of transferring: a negative amount
\* cannot be encoded as uint, balance.lt(amountToSend) is refused
sendTokenRaises(balance, amount) == amount < 0 \/ balance < amount

\* sendMoney up to its first await: argument checks, then the sender lookup
sendMoneyStart(t) ==
    LET r == turns[t]
        v == sendMoneyValidate(r.args)
        u == FindFirst(r.args.idWa)
        r1 == Log(r, <<Ev("tool.findUser", r.args.idWa)>>) IN
    /\ r.pc = "sendMoney"
    /\ IF v # "" THEN Set(t, ToolCatch(r, v))
       ELSE IF ~u.exists THEN Set(t, ToolCatch(r1, "User not found"))
       ELSE Set(t, [r1 EXCEPT !.tuser = u, !.pc = "smBalance"])
    /\ UNCHANGED <<users, tokenBal, wallets, delivered, conv>>

\* getTokenBalance(user.metas.wallet.address) and the balance check
sendMoneyBalance(t) ==
    LET r == turns[t]
        w == r.tuser.wallet
        r1 == Log(r, <<Ev("getTokenBalance", "tool")>>) IN
    /\ r.pc = "smBalance"
    /\ IF w = 0 THEN Set(t, ToolCatch(r, "TypeError"))
       ELSE \/ Set(t, ToolCatch(r1, "Error getting token balance"))
            \/ IF InsufficientBalance(tokenBal[w], r.args.amount)
               THEN Set(t, ToolCatch([r1 EXCEPT !.balance = tokenBal[w]],
                                     "Insufficient balance"))
               ELSE Set(t, [r1 EXCEPT !.balance = tokenBal[w], !.pc = "smRecipient"])
    /\ UNCHANGED <<users, tokenBal, wallets, delivered, conv>>

\* a branch that gives every known recipient a new wallet
afterRecipientLookup_AlwaysGenerate(rec) ==
    IF ~rec.exists THEN "smRegister" ELSE "smGenWallet"

\* a branch that never registers the recipient
afterRecipientLookup_NoRegister(rec) ==
    IF rec.wallet = 0 THEN "smGenWallet" ELSE "smSend"

\* the branch of sendMoney on the recipient row: register first, only
\* generate a wallet, or go straight to the transfer
afterRecipientLookup(rec) ==
    IF ~rec.exists THEN "smRegister"
    ELSE IF rec.wallet = 0 THEN "smGenWallet" ELSE "smSend"

\* prisma.user.findFirst({where: {idWa: contactNumber}}), console.info of the
\* row found, and the branch on it
sendMoneyRecipient(t) ==
    LET r == turns[t]
        rec == FindFirst(r.args.contactNumber)
        r1 == Flow(Log(r, <<Ev("tool.findUser", r.args.contactNumber)>>),
                   "log", rec.wallet) IN
    /\ r.pc = "smRecipient"
    /\ Set(t, [r1 EXCEPT !.recipientFound = rec.exists,
            !.recipient = rec,
            !.recipientWalletAddress = rec.wallet,
            !.pc = afterRecipientLookup(rec)])
    /\ UNCHANGED <<users, tokenBal, wallets, delivered, conv>>

\* UserService.registerUserForFirstTime(contactNumber, {nicename: contactName})
sendMoneyRegister(t) ==
    LET r == turns[t]
        h == r.args.contactNumber
        r1 == Log(r, <<Ev("tool.createUser", h)>>) IN
    /\ r.pc = "smRegister"
    /\ IF users[h].exists
       THEN /\ Set(t, ToolCatch(r1, "Unique constraint"))
            /\ UNCHANGED users
       ELSE /\ users' = [users EXCEPT
                    ![h] = registerUserForFirstTime(h, r.args.contactName)]
            /\ Set(t, [r1 EXCEPT !.pc = "smGenWallet"])
    /\ UNCHANGED <<tokenBal, wallets, delivered, conv>>

\* CryptoService.generateWallet() for the recipient; console.log('New wallet:')
sendMoneyGenerateWallet(t) ==
    LET r == turns[t] IN
    /\ r.pc = "smGenWallet"
    /\ FreshWallet # 0
    /\ wallets' = wallets \cup {FreshWallet}
    /\ Set(t, [Flow(Log(r, <<Ev("generateWallet", "tool")>>), "log", FreshWallet)
            EXCEPT !.wallet = FreshWallet, !.pc = "smFund"])
    /\ UNCHANGED <<users, tokenBal, delivered, conv>>

\* CryptoService.fundWallet(wallet.address) for the recipient
sendMoneyFundWallet(t) ==
    LET r == turns[t]
        r1 == Log(r, <<Ev("fundWallet", "tool")>>) IN
    /\ r.pc = "smFund"
    /\ \/ /\ tokenBal' = [tokenBal EXCEPT ![r.wallet] = @ + FundAmount]
          /\ Set(t, [r1 EXCEPT !.pc = "smSaveWallet"])
          /\ UNCHANGED wallets
       \/ /\ Set(t, ToolCatch(r1, "Error sending tokens"))
          /\ wallets' = wallets \ {r.wallet}
          /\ UNCHANGED tokenBal
    /\ UNCHANGED <<users, delivered, conv>>

\* UserService.updateUserWallet(contactNumber, {wallet})
sendMoneyUpdateWallet(t) ==
    LET r == turns[t]
        h == r.args.contactNumber IN
    /\ r.pc = "smSaveWallet"
    /\ users' = [users EXCEPT ![h] = updateUserWallet(@, r.wallet)]
    /\ Set(t, [Flow(Log(r, <<Ev("tool.updateUserWallet", h)>>), "store", r.wallet)
            EXCEPT !.recipientWalletAddress = r.wallet, !.pc = "smSend"])
    /\ UNCHANGED <<tokenBal, wallets, delivered, conv>>

\* a catch that attempts the transfer a second time before giving up
sendTokenFailed_Retry(r) ==
    IF Len(SelectSeq(r.calls, LAMBDA e : e.op = "sendToken")) < 2
    THEN [r EXCEPT !.pc = "smSend"]
    ELSE ToolCatch(r, "Error sending money")

\* the catch around sendToken: log, then throw new Error('Error sending money')
sendTokenFailed(r) == ToolCatch(r, "Error sending money")

\* CryptoService.sendToken(sender wallet, token, recipientWalletAddress, amount);
\* any raise is rethrown as 'Error sending money'
sendMoneySendToken(t) ==
    LET r == turns[t]
        src == r.tuser.wallet
        dst == r.recipientWalletAddress
        a == r.args.amount
        r1 == Flow(Log(r, <<Ev("sendToken", "tool")>>), "blockchain", src) IN
    /\ r.pc = "smSend"
    /\ \/ /\ Set(t, sendTokenFailed(r1))
          /\ UNCHANGED tokenBal
       \/ /\ ~sendTokenRaises(tokenBal[src], a)
          /\ tokenBal' = IF src = dst THEN tokenBal
                         ELSE [tokenBal EXCEPT ![src] = @ - a, ![dst] = @ + a]
          /\ Set(t, [r1 EXCEPT !.pc = "smRebalance"])
    /\ UNCHANGED <<users, wallets, delivered, conv>>

\* the substitutions applied after sendMoney
FormatSend(r) ==
    IF ~r.args.hasCC THEN ToolCatch(r, "TypeError")
    ELSE Finish([r EXCEPT !.args.continueConversation =
            ReplaceFirst(ReplaceFirst(ReplaceFirst(@,
                "%amount%", ToString(r.args.amount)),
                "%name%", "Pedro"),
                "%transaction_details%", "\n\nLink: https://sepolia.arbiscan.io/tx/hash")])

\* the second getTokenBalance of sendMoney, then the return to the dispatcher
sendMoneyRebalance(t) ==
    LET r == turns[t]
        r1 == Log(r, <<Ev("getTokenBalance", "tool")>>) IN
    /\ r.pc = "smRebalance"
    /\ \/ Set(t, ToolCatch(r1, "Error getting token balance"))
       \/ Set(t, FormatSend([r1 EXCEPT !.balance = tokenBal[r.tuser.wallet]]))
    /\ UNCHANGED <<users, tokenBal, wallets, delivered, conv>>

\* ------------------------------------------------------------ specification
Step(t) ==
    \/ Receive(t)
    \/ WVerify(t)
    \/ WRegister(t)
    \/ WGenerateWallet(t)
    \/ WFundWallet(t)
    \/ WUpdateWallet(t)
    \/ WGate(t)
    \/ OnboardingCall(t)
    \/ OnboardingUpdate(t)
    \/ OnboardingSend(t)
    \/ ToolCall(t)
    \/ ToolFindUser(t)
    \/ changeEmail(t)
    \/ changeNicename(t)
    \/ getWalletBalance(t)
    \/ sendMoneyStart(t)
    \/ sendMoneyBalance(t)
    \/ sendMoneyRecipient(t)
    \/ sendMoneyRegister(t)
    \/ sendMoneyGenerateWallet(t)
    \/ sendMoneyFundWallet(t)
    \/ sendMoneyUpdateWallet(t)
    \/ sendMoneySendToken(t)
    \/ sendMoneyRebalance(t)
    \/ WSend(t)

Next == \E t \in Slots : Step(t)

Spec == Init /\ [][Next]_vars

TypeOK ==
    /\ wallets \subseteq 1..MaxWallets
    /\ delivered \in 0..MaxTurns
    /\ \A w \in 1..MaxWallets : tokenBal[w] >= 0
    /\ \A h \in Handles : users[h].wallet \in wallets \cup {0}

\* ----------------------------------------- AIService.prepareConversationHistory
Timestamps == {1, 2}
\* msg.body: null, '', ' ', 'hi'
Messages ==
    {Message(ts, TRUE, b, f) : ts \in Timestamps, b \in {<<>>, <<" ">>, <<"hi">>},
                               f \in BOOLEAN}
    \cup {Message(ts, FALSE, <<>>, f) : ts \in Timestamps, f \in BOOLEAN}

\* what getConversationHistory may hand over: null, or an array in any order
RawInputs ==
    {Raw(TRUE, <<>>)}
    \cup {Raw(FALSE, items) : items \in UNION {[1..n -> Messages] : n \in 0..MaxMessages}}

\* a comparator that also puts a message before one of the same timestamp
Before_OrEqual(a, b) ==
    a.hasTimestamp /\ b.hasTimestamp /\ a.timestamp <= b.timestamp

\* (a, b) => a.timestamp - b.timestamp is negative; a difference with an
\* undefined timestamp is NaN, which sort takes as 0
Before(a, b) == a.hasTimestamp /\ b.hasTimestamp /\ a.timestamp < b.timestamp

RECURSIVE InsertSorted(_, _)
InsertSorted(s, m) ==
    IF s = <<>> THEN <<m>>
    ELSE IF Before(m, Head(s)) THEN <<m>> \o s
    ELSE <<Head(s)>> \o InsertSorted(Tail(s), m)

\* [...messages].sort(comparator): Array.prototype.sort is stable
RECURSIVE sortedMessages(_)
sortedMessages(messages) ==
    IF messages = <<>> THEN <<>>
    ELSE InsertSorted(sortedMessages(SubSeq(messages, 1, Len(messages) - 1)),
                      messages[Len(messages)])

\* msg.body && msg.body.trim() !== ''
HasContent(msg) == msg.hasBody /\ Truthy(Trim(msg.body))

messagesWithContent(s) == SelectSeq(s, HasContent)

\* Array.prototype.slice(-limit); slice(-0) is slice(0), the whole array
Slice(s, limit) ==
    IF limit = 0 \/ limit >= Len(s) THEN s
    ELSE SubSeq(s, Len(s) - limit + 1, Len(s))

\* a window that truncates before it filters
recentMessages_SliceFirst(messages, limit) ==
    messagesWithContent(Slice(sortedMessages(messages), limit))

\* lines 155-161: sort, filter, then the last limit messages
recentMessages(messages, limit) ==
    Slice(messagesWithContent(sortedMessages(messages)), limit)

\* the map of lines 164-178: role and type from fromMe, text = msg.body || ''
ToEntry(msg) ==
    Entry(IF ~msg.fromMe THEN "user" ELSE "assistant",
          IF ~msg.fromMe THEN "input_text" ELSE "output_text",
          IF msg.hasBody THEN msg.body ELSE <<>>)

\* lines 155-178 on their own: spreading null raises a TypeError
Window(raw, limit) ==
    IF raw.null
    THEN [error |-> "TypeError", recent |-> <<>>, history |-> <<>>]
    ELSE LET recent == recentMessages(raw.items, limit) IN
         [error |-> "", recent |-> recent,
          history |-> [i \in 1..Len(recent) |-> ToEntry(recent[i])]]

\* the function without its guard on a missing or empty input
prepareConversationHistory_NoGuard(raw, limit) == Window(raw, limit)

\* prepareConversationHistory(messages, limit): its result, the recentMessages
\* it selected and the error it raised ("" when none)
prepareConversationHistory(raw, limit) ==
    IF raw.null \/ Len(raw.items) = 0
    THEN [error |-> "", recent |-> <<>>, history |-> <<>>]
    ELSE Window(raw, limit)

\* the first and the last entry of inputArray
SystemEntry == Entry("system", "input_text", <<"tooledSystemPrompt", "context">>)
PromptEntry == Entry("user", "input_text", <<"prompt">>)

HInit ==
    /\ conv \in {[IdleConv EXCEPT !.pc = "start", !.raw = raw, !.limit = limit] :
                    raw \in RawInputs, limit \in 1..MaxLimit}
    /\ users = [h \in Handles |-> NoUser]
    /\ tokenBal = [w \in 1..MaxWallets |-> 0]
    /\ wallets = {}
    /\ delivered = 0
    /\ turns = [t \in Slots |-> IdleTurn]

\* const history = await AIService.prepareConversationHistory(rawMessages)
PrepareHistory ==
    LET res == prepareConversationHistory(conv.raw, conv.limit) IN
    /\ conv.pc = "start"
    /\ conv' = [conv EXCEPT !.error = res.error, !.recent = res.recent,
                    !.history = res.history,
                    !.pc = IF res.error # "" THEN "raised" ELSE "prepared"]
    /\ UNCHANGED <<users, tokenBal, wallets, delivered, turns>>

\* the function applied to the entries it returned, and its selection applied
\* to the messages it selected
ReapplyWindow ==
    /\ conv.pc = "prepared"
    /\ conv' = [conv EXCEPT
            !.again = prepareConversationHistory(Raw(FALSE, conv.history),
                                                 conv.limit).history,
            !.reselected = recentMessages(conv.recent, conv.limit),
            !.pc = "reapplied"]
    /\ UNCHANGED <<users, tokenBal, wallets, delivered, turns>>

\* inputArray: the system entry, the history, the current prompt
BuildInput ==
    /\ conv.pc = "prepared"
    /\ conv' = [conv EXCEPT !.input = <<SystemEntry>> \o conv.history \o <<PromptEntry>>,
                            !.pc = "built"]
    /\ UNCHANGED <<users, tokenBal, wallets, delivered, turns>>

\* openai.responses.create({input: inputArray, tools: generalTools, ...})
CompleteCall ==
    /\ conv.pc = "built"
    /\ conv' = [conv EXCEPT !.pc = "completed"]
    /\ UNCHANGED <<users, tokenBal, wallets, delivered, turns>>

HNext == PrepareHistory \/ ReapplyWindow \/ BuildInput \/ CompleteCall

HistorySpec == HInit /\ [][HNext]_vars

\* ------------------------------- ToolService.changeEmail / changeNicename
\* rows a user table may hold when a handler is called (rows can also be
\* removed through the REST routes of the user entity)
Rows ==
    {NoUser} \cup
    {[exists |-> TRUE, nicename |-> n, email |-> e, wallet |-> 0] :
        n \in Names, e \in Emails \cup {<<"b@y">>}}

\* a turn at the point where tooledConversation calls the handler
HandlerTurn(from, name, args) ==
    Dispatch([NewTurn(from, FALSE, <<>>) EXCEPT
                !.mode = "OPERATIONAL",
                !.resp = [type |-> "function_call", name |-> name, args |-> args]],
             name, args)

\* a user table and a changeEmail or changeNicename call about to run on it
ProfileInit ==
    /\ users \in [Handles -> Rows]
    /\ tokenBal = [w \in 1..MaxWallets |-> 0]
    /\ wallets = {}
    /\ delivered = MaxTurns
    /\ conv = IdleConv
    /\ \E from \in Handles, name \in {"changeEmail", "changeNicename"}, c \in CCArgs :
       \E a \in ArgsOf(name) :
          turns = [t \in Slots |-> HandlerTurn(from, name, WithCC(a, c))]

ProfileNext ==
    \E t \in Slots :
        \/ ToolFindUser(t)
        \/ changeEmail(t)
        \/ changeNicename(t)
        \/ WSend(t)

ProfileSpec == ProfileInit /\ [][ProfileNext]_vars

\* ------------------------------------------- turns processed concurrently
\* Express runs a second webhook request while the first one is suspended at
\* an await.  Between its awaits CryptoService.sendToken is split here into
\* the balanceOf re-check and the transfer call on the token contract.
Racers == {1, 2}
\* the wallet of a sender onboarded before the two turns, outside the wallets
\* the turns can generate
SenderWallet == MaxWallets + 1
RaceAmounts == {30, 60, -10}

\* tokenContract.transfer(to, amount) of the ERC-20 token: the contract
\* reverts a transfer that exceeds the balance of the caller
transferReverts(balance, amount) == balance < amount

\* sendToken up to balance.lt(amountToSend): parseUnits, balanceOf, the check
sendTokenBalanceOf(t) ==
    LET r == turns[t]
        src == r.tuser.wallet
        a == r.args.amount
        r1 == Flow(Log(r, <<Ev("sendToken", "tool")>>), "blockchain", src)
        r2 == [r1 EXCEPT !.chainBalance = tokenBal[src]] IN
    /\ r.pc = "smSend"
    /\ \/ Set(t, sendTokenFailed(r1))
       \/ IF sendTokenRaises(tokenBal[src], a)
          THEN Set(t, sendTokenFailed(r2))
          ELSE Set(t, [r2 EXCEPT !.pc = "smTransfer"])
    /\ UNCHANGED <<users, tokenBal, wallets, delivered, conv>>

\* tokenContract.transfer and transaction.wait()
sendTokenTransfer(t) ==
    LET r == turns[t]
        src == r.tuser.wallet
        dst == r.recipientWalletAddress
        a == r.args.amount IN
    /\ r.pc = "smTransfer"
    /\ IF transferReverts(tokenBal[src], a)
       THEN /\ Set(t, sendTokenFailed(Log(r, <<Ev("transfer", "reverted")>>)))
            /\ UNCHANGED tokenBal
       ELSE /\ tokenBal' = IF src = dst THEN tokenBal
                           ELSE [tokenBal EXCEPT ![src] = @ - a, ![dst] = @ + a]
            /\ Set(t, [Log(r, <<Ev("transfer", "mined")>>) EXCEPT
                    !.pc = "smRebalance"])
    /\ UNCHANGED <<users, wallets, delivered, conv>>

\* the row of a sender who finished onboarding and holds the bootstrap funds
OnboardedSender == [exists |-> TRUE, nicename |-> <<"Ana">>, email |-> <<"a@x">>,
                    wallet |-> SenderWallet]

\* a sendMoney of the onboarded sender, about to run
RaceSend(a) ==
    [HandlerTurn("h1", "sendMoney",
        WithCC(SendArgs(a, Contact(<<"Pedro">>, "h2")),
               [hasCC |-> TRUE, cc |-> <<"ok", "%amount%">>, idWa |-> ""]))
     EXCEPT !.user = OnboardedSender]

\* two webhook requests in flight: a sendMoney of h1 to h2, and either a
\* second sendMoney of h1 or a message of h2 itself (no display name)
RaceInit ==
    /\ conv = IdleConv
    /\ delivered = MaxTurns
    /\ wallets = {SenderWallet}
    /\ tokenBal = [w \in 1..SenderWallet |-> IF w = SenderWallet THEN FundAmount ELSE 0]
    /\ \E row \in {NoUser, registerUserForFirstTime("h2", <<"Pedro">>)} :
          users = [h \in Handles |-> IF h = "h1" THEN OnboardedSender ELSE row]
    /\ \E a \in RaceAmounts :
       \E second \in {RaceSend(b) : b \in RaceAmounts}
                     \cup {NewTurn("h2", FALSE, <<>>)} :
          turns = [t \in Racers |-> IF t = 1 THEN RaceSend(a) ELSE second]

RaceStep(t) ==
    \/ WVerify(t)
    \/ WRegister(t)
    \/ WGenerateWallet(t)
    \/ WFundWallet(t)
    \/ WUpdateWallet(t)
    \/ WGate(t)
    \/ OnboardingCall(t)
    \/ OnboardingUpdate(t)
    \/ OnboardingSend(t)
    \/ ToolCall(t)
    \/ ToolFindUser(t)
    \/ changeEmail(t)
    \/ changeNicename(t)
    \/ getWalletBalance(t)
    \/ sendMoneyStart(t)
    \/ sendMoneyBalance(t)
    \/ sendMoneyRecipient(t)
    \/ sendMoneyRegister(t)
    \/ sendMoneyGenerateWallet(t)
    \/ sendMoneyFundWallet(t)
    \/ sendMoneyUpdateWallet(t)
    \/ sendTokenBalanceOf(t)
    \/ sendTokenTransfer(t)
    \/ sendMoneyRebalance(t)
    \/ WSend(t)

RaceNext == \E t \in Racers : RaceStep(t)

RaceSpec == RaceInit /\ [][RaceNext]_vars

\* ---------------------------------------------------- reading the call log
RECURSIVE DropThrough(_, _)
DropThrough(s, op) ==
    IF s = <<>> THEN <<>>
    ELSE IF Head(s).op = op THEN Tail(s) ELSE DropThrough(Tail(s), op)

IsToolEv(e) == e.op \notin {"sendText", "stopTyping"}

\* the calls made by the tool handler of a turn, in order
ToolEvents(r) == SelectSeq(DropThrough(r.calls, "handler"), IsToolEv)
ToolOps(r) == [i \in 1..Len(ToolEvents(r)) |-> ToolEvents(r)[i].op]

HandlerInvoked(r) == \E i \in 1..Len(r.calls) : r.calls[i].op = "handler"
Called(r, op) == \E i \in 1..Len(r.calls) : r.calls[i].op = op
Count(r, op) == Cardinality({i \in 1..Len(r.calls) : r.calls[i].op = op})
IsPrefix(a, b) == Len(a) <= Len(b) /\ a = SubSeq(b, 1, Len(a))
Finished(r) == r.pc \in {"send", "done"}
IsSendMoney(r) == r.resp.name = "sendMoney" /\ HandlerInvoked(r)

\* ------------------------------------------------------------------ claims

\* C1: a send-money dispatch whose queried sender balance is below the amount
\* fails with 'Insufficient balance' and makes no further call: no sendToken,
\* no recipient profile, no wallet generated or funded.
C1_InsufficientFundsStops ==
    \A t \in Slots :
        LET r == turns[t] IN
        (/\ IsSendMoney(r)
         /\ ToolOps(r) # <<>>
         /\ Count(r, "getTokenBalance") = 1
         /\ r.toolError # "Error getting token balance"
         /\ r.pc # "smBalance"
         /\ r.balance < r.args.amount)
        => /\ r.toolError = "Insufficient balance"
           /\ Finished(r)
           /\ ToolOps(r) = <<"tool.findUser", "getTokenBalance">>

C1_Witness ==
    \E t \in Slots :
        LET r == turns[t] IN
        /\ IsSendMoney(r)
        /\ r.pc = "done"
        /\ r.toolError = "Insufficient balance"
        /\ r.balance = FundAmount /\ r.args.amount = 60
        /\ r.sent = <<Text(r.from, Apology)>>

\* the calls of a send-money dispatch to a handle without a profile
NewRecipientCalls ==
    <<"tool.findUser", "getTokenBalance", "tool.findUser", "tool.createUser",
      "generateWallet", "fundWallet", "tool.updateUserWallet", "sendToken",
      "getTokenBalance">>

\* C2: send-money to a handle without a profile performs one profile creation,
\* one wallet generation, one funding, the persisting of the wallet and then
\* one transfer, in that order; at the transfer the wallet is stored on the
\* new profile and funded.
C2_NewRecipientOrder ==
    \A t \in Slots :
        LET r == turns[t]
            h == r.args.contactNumber IN
        (IsSendMoney(r) /\ Len(ToolOps(r)) >= 3 /\ ~r.recipientFound)
        => /\ IsPrefix(ToolOps(r), NewRecipientCalls)
           /\ r.pc = "smSend" =>
                /\ SubSeq(NewRecipientCalls, 1, 7) = ToolOps(r)
                /\ users[h].exists
                /\ users[h].wallet = r.recipientWalletAddress
                /\ users[h].wallet # 0
                /\ tokenBal[users[h].wallet] >= FundAmount
           /\ (Finished(r) /\ r.toolError = "") => ToolOps(r) = NewRecipientCalls

C2_Witness ==
    \E t \in Slots :
        LET r == turns[t] IN
        /\ IsSendMoney(r)
        /\ ~r.recipientFound
        /\ r.pc = "done"
        /\ r.toolError = ""
        /\ ToolOps(r) = NewRecipientCalls
        /\ users[r.args.contactNumber].wallet = r.recipientWalletAddress

\* a send-money argument object the claim calls invalid
InvalidTransfer(a) ==
    \/ ~a.hasAmount
    \/ a.amount <= 0
    \/ ~a.hasContact
    \/ ~Truthy(a.contactName)
    \/ a.contactNumber = ""

ValidationErrors ==
    {"Amount is required", "Contact is required",
     "Contact name and phone number are required", "Contact name is required",
     "Contact phone number is required"}

\* C3: a send-money dispatch with a non-positive amount or a missing recipient
\* name or handle fails with a validation error before any lookup, balance
\* query, profile creation, wallet generation, funding or transfer.
C3_ValidationBeforeEffects ==
    \A t \in Slots :
        LET r == turns[t] IN
        (IsSendMoney(r) /\ InvalidTransfer(r.resp.args))
        => /\ ToolOps(r) = <<>>
           /\ Finished(r) => r.toolError \in ValidationErrors

\* a required argument of the tool (generalTools) is missing or empty
MissingRequired(name, a) ==
    \/ ~a.hasCC
    \/ ~Truthy(a.continueConversation)
    \/ name = "changeEmail" /\ ~Truthy(a.email)
    \/ name = "changeNicename" /\ ~Truthy(a.nicename)
    \/ name = "getWalletBalance" /\ a.walletAddress = 0
    \/ name = "sendMoney" /\
         (~a.hasAmount \/ ~a.hasContact \/ ~Truthy(a.contactName) \/ a.contactNumber = "")

\* C4: when a required argument of the resolved tool is missing or empty the
\* handler is not invoked, no profile is read or updated and no collaborator
\* is called.
C4_DispatcherValidationGate ==
    \A t \in Slots :
        LET r == turns[t] IN
        (/\ r.resp.type = "function_call"
         /\ r.resp.name \in ToolServiceMethods
         /\ MissingRequired(r.resp.name, r.resp.args))
        => ~HandlerInvoked(r) /\ ToolOps(r) = <<>>

PastGate(r) == r.mode # "NONE"

\* C5 as stated: OPERATIONAL is selected iff display name and email are both
\* non-empty after trimming.
C5_GateTrimmed ==
    \A t \in Slots :
        LET r == turns[t] IN
        PastGate(r) =>
            (r.mode = "OPERATIONAL"
                <=> Truthy(Trim(r.user.nicename)) /\ Truthy(Trim(r.user.email)))

\* C5 amended: the completion collaborator is called with the tool catalog iff
\* display name and email of the profile are both non-empty strings (no
\* trimming), and with the onboarding schema otherwise.
C5_GateNonEmpty ==
    \A t \in Slots :
        LET r == turns[t]
            both == Truthy(r.user.nicename) /\ Truthy(r.user.email) IN
        /\ PastGate(r) => (r.mode = "OPERATIONAL" <=> both)
        /\ \A i \in 1..Len(r.calls) :
              r.calls[i].op = "complete" =>
                 (r.calls[i].who = "tooled" <=> both)

C5_Witness ==
    \E t \in Slots :
        LET r == turns[t] IN
        /\ r.mode = "OPERATIONAL"
        /\ r.user.nicename = <<" ">>
        /\ Called(r, "complete")

\* the turn created the profile of its sender
CreatedProfile(r) == Called(r, "createUser") /\ r.user.exists

\* C6: the turn that creates the sender's profile is an ONBOARDING turn: the
\* gate does not select OPERATIONAL, no tool is dispatched, and when the turn
\* returns it has made one completion call, updated the profile and sent a reply.
C6_FirstContactOnboards ==
    \A t \in Slots :
        LET r == turns[t] IN
        CreatedProfile(r)
        => /\ r.mode # "OPERATIONAL"
           /\ ~Called(r, "handler")
           /\ (r.pc = "done" /\ r.outcome = "returned")
                => /\ Count(r, "complete") = 1
                   /\ Called(r, "updateUser")
                   /\ Len(r.sent) = 1

Onboarded(h) == users[h].exists /\ Gate(users[h]) = "OPERATIONAL"

\* C7: a profile that the gate sends to OPERATIONAL stays so under every step
\* of every turn (change-email, change-display-name with any arguments,
\* get-balance, send-money, plain replies).
C7_OperationalTerminal ==
    [][\A h \in Handles : Onboarded(h) => Onboarded(h)']_vars

C7_Witness ==
    \E t \in Slots :
        LET r == turns[t] IN
        /\ r.pc = "done"
        /\ r.resp.name = "changeEmail"
        /\ r.args.email = <<>>
        /\ Called(r, "tool.updateUser")
        /\ Onboarded(r.from)

\* every profile lookup and update of a handler is keyed by the sender's
\* handle, except the recipient lookup, creation and wallet of send-money
C8_KeyedBySender ==
    \A t \in Slots :
        LET r == turns[t] IN
        /\ HandlerInvoked(r) => r.args.idWa = r.from
        /\ \A i \in 1..Len(ToolEvents(r)) :
              LET e == ToolEvents(r)[i] IN
              /\ e.op = "tool.updateUser" => e.who = r.from
              /\ (e.op = "tool.findUser" /\ (i = 1 \/ r.resp.name # "sendMoney"))
                    => e.who = r.from

\* a change-email or change-display-name step writes the sender's row only
C8_WritesOwnRow ==
    \A t \in Slots : \A h \in Handles :
        (/\ turns[t].pc \in {"changeEmailUpdate", "changeNicenameUpdate"}
         /\ users'[h] # users[h])
        => h = turns[t].from

\* C8: the actor handle seen by a handler is the transport handle of the
\* sender, also when the model's argument object carries an idWa of its own;
\* lookups and updates are keyed by it.
C8_ActorInjection == [][C8_WritesOwnRow]_vars /\ []C8_KeyedBySender

C8_Witness ==
    \E t \in Slots :
        LET r == turns[t] IN
        /\ r.pc = "done"
        /\ r.resp.name = "changeEmail"
        /\ r.resp.args.idWa \notin {"", r.from}
        /\ r.args.email # <<>>
        /\ users[r.from].email = r.args.email
        /\ \E i \in 1..Len(r.calls) : r.calls[i] = Ev("tool.updateUser", r.from)

\* C9: a message that is self-sent or not from the bound number causes no
\* lookup, no creation, no wallet, no completion call, no dispatch, no text.
C9_FilterIgnores ==
    \A t \in Slots :
        LET r == turns[t] IN
        (r.pc # "idle" /\ (r.fromMe \/ r.from # WHATSAPP_NUMBER))
        => r.calls = <<>> /\ r.sent = <<>>

\* C10: when the completion call fails or its output is malformed the turn
\* ends normally with the apology sent and one completion call made.
C10_ResolutionFailureApology ==
    \A t \in Slots :
        LET r == turns[t] IN
        (r.pc = "done" /\ r.error \in {"completion unreachable", "malformed completion"})
        => /\ r.outcome = "returned"
           /\ r.sent = <<Text(r.from, Apology)>>
           /\ Count(r, "complete") = 1

\* the tokens of a text
Tokens(s) == {s[i] : i \in 1..Len(s)}

\* C11: when the tool handler of a turn raised (validation, not found,
\* insufficient balance, transfer failed, ...) the one text sent in the turn is
\* the fixed apology: it holds neither the error's message nor a token of the
\* confirmation text the model supplied.
C11_ToolErrorApology ==
    \A t \in Slots :
        LET r == turns[t] IN
        (HandlerInvoked(r) /\ r.toolError # "")
        => /\ Finished(r)
           /\ r.reply = Text(r.from, Apology)
           /\ r.toolError \notin Tokens(r.reply.text)
           /\ Tokens(r.reply.text) \cap Tokens(r.resp.args.continueConversation) = {}
           /\ r.pc = "done" => r.sent = <<r.reply>>

C11_Witness ==
    \E t \in Slots :
        LET r == turns[t] IN
        /\ r.pc = "done"
        /\ r.resp.name = "getWalletBalance"
        /\ r.toolError = "Error getting token balance"
        /\ r.resp.args.continueConversation = <<"ok", "%amount%">>
        /\ r.sent = <<Text(r.from, Apology)>>

\* the first position of a call in the log of a turn (0: never called)
FirstAt(r, op) ==
    IF Called(r, op)
    THEN CHOOSE i \in 1..Len(r.calls) :
            /\ r.calls[i].op = op
            /\ \A j \in 1..(i - 1) : r.calls[j].op # op
    ELSE 0

\* C12: in a turn that called startTyping, startTyping precedes the completion
\* call, and when the turn has ended (reply sent or error) stopTyping has been
\* called for the sender after it.
C12_TypingBracket ==
    \A t \in Slots :
        LET r == turns[t] IN
        Called(r, "startTyping")
        => /\ Called(r, "complete") => FirstAt(r, "startTyping") < FirstAt(r, "complete")
           /\ r.pc = "done" =>
                \E i \in 1..Len(r.calls) :
                    /\ i > FirstAt(r, "startTyping")
                    /\ r.calls[i] = Ev("stopTyping", r.from)

\* no step removes a stored profile or replaces a stored wallet
NoRollback ==
    \A h \in Handles :
        /\ users[h].exists => users'[h].exists
        /\ users[h].wallet # 0 => users'[h].wallet = users[h].wallet

\* the handler of the turn made the call
ToolCalled(r, op) ==
    \E i \in 1..Len(r.calls) :
        /\ r.calls[i].op = op
        /\ IsToolEv(r.calls[i])
        /\ \E j \in 1..(i - 1) : r.calls[j].op = "handler"

\* the dispatch of the turn ended in its sendToken call: the transfer raised
TransferRaised(r) ==
    /\ IsSendMoney(r) /\ Finished(r)
    /\ ToolOps(r) # <<>> /\ ToolOps(r)[Len(ToolOps(r))] = "sendToken"

\* a send-money dispatch whose transfer raised: one attempt, the fixed error,
\* and what the dispatch created for the recipient is still stored
TransferFailedOnce ==
    \A t \in Slots :
        LET r == turns[t]
            h == r.args.contactNumber IN
        /\ r.pc = "smSend" => ~Called(r, "sendToken")
        /\ TransferRaised(r)
           => /\ r.toolError = "Error sending money"
              /\ Count(r, "sendToken") = 1
              /\ ToolCalled(r, "tool.createUser") => users[h].exists
              /\ ToolCalled(r, "fundWallet") =>
                   /\ users[h].wallet = r.wallet
                   /\ r.wallet \in wallets
                   /\ tokenBal[r.wallet] >= FundAmount

\* C13: when sendToken raises, the dispatch fails with 'Error sending money'
\* after a single attempt, and the recipient profile and the funded wallet the
\* dispatch created stay stored, then and at every later step.
C13_TransferFailureNoRollback == [][NoRollback]_vars /\ []TransferFailedOnce

C13_Witness ==
    \E t \in Slots :
        LET r == turns[t]
            h == r.args.contactNumber IN
        /\ r.pc = "done"
        /\ TransferRaised(r)
        /\ r.toolError = "Error sending money"
        /\ ToolCalled(r, "tool.createUser") /\ ToolCalled(r, "fundWallet")
        /\ users[h].exists /\ users[h].wallet = r.wallet
        /\ tokenBal[r.wallet] = FundAmount

\* C14: the wallet object (address, private key, mnemonic) of a sender or of a
\* new recipient reaches the token contract and the store only, never the
\* input of the completion call and never the log.
C14_WalletSecretConfined ==
    \A t \in Slots :
        \A f \in turns[t].flows : f.sink \in {"blockchain", "store"}

\* the preparation returned a window of a non-null input
Windowed == conv.pc \in {"prepared", "reapplied", "built", "completed"} /\ ~conv.raw.null

\* occurrences of a message in a list
Occ(s, m) == Cardinality({i \in 1..Len(s) : s[i] = m})
\* a message the blank filter keeps: a body that is not empty once trimmed
NonBlank(m) == m.hasBody /\ Trim(m.body) # <<>>
Min(a, b) == IF a <= b THEN a ELSE b

\* C15: for every message list and positive limit the selected messages are in
\* ascending timestamp order, none is blank, there are min(limit, number of
\* non-blank messages) of them (the filter comes before the truncation), they
\* are messages of the input and every non-blank message left out is no later
\* than the first kept; the result tags each user (not fromMe) or assistant.
C15_HistoryWindow ==
    Windowed =>
        LET in == conv.raw.items
            sel == conv.recent
            out == conv.history
            n == Cardinality({i \in 1..Len(in) : NonBlank(in[i])}) IN
        /\ Len(sel) = Min(conv.limit, n)
        /\ Len(sel) <= conv.limit
        /\ \A i \in 1..Len(sel) : NonBlank(sel[i])
        /\ \A i, j \in 1..Len(sel) : i < j => sel[i].timestamp <= sel[j].timestamp
        /\ \A i \in 1..Len(sel) : Occ(sel, sel[i]) <= Occ(in, sel[i])
        /\ \A i \in 1..Len(in) :
              (NonBlank(in[i]) /\ Occ(sel, in[i]) < Occ(in, in[i]))
              => Len(sel) > 0 /\ in[i].timestamp <= sel[1].timestamp
        /\ Len(out) = Len(sel)
        /\ \A i \in 1..Len(out) :
              /\ out[i].role = IF sel[i].fromMe THEN "assistant" ELSE "user"
              /\ out[i].text = sel[i].body

C15_Witness ==
    /\ Windowed
    /\ Len(conv.raw.items) = 3
    /\ conv.raw.items[1].timestamp > conv.raw.items[3].timestamp
    /\ NonBlank(conv.raw.items[1]) /\ NonBlank(conv.raw.items[3])
    /\ ~NonBlank(conv.raw.items[2]) /\ conv.raw.items[2].timestamp = 2
    /\ conv.limit = 1
    /\ conv.history = <<ToEntry(conv.raw.items[1])>>

\* C16 as stated: the function applied to its own output returns that output.
C16_WindowIdempotent ==
    conv.pc = "reapplied" => conv.again = conv.history

\* C16 amended: selecting again from the selected messages changes nothing;
\* the returned entries have no body, so the function applied to them returns
\* the empty sequence.
C16_SelectionIdempotent ==
    conv.pc = "reapplied" =>
        /\ conv.reselected = conv.recent
        /\ conv.again = <<>>

C16_Witness ==
    /\ conv.pc = "reapplied"
    /\ Len(conv.recent) = 2
    /\ conv.recent[1] # conv.recent[2]
    /\ conv.recent[1].timestamp = conv.recent[2].timestamp
    /\ Len(conv.raw.items) = 3
    /\ conv.reselected = conv.recent

\* C17: a null or empty raw history gives an empty history without an error,
\* and the completion input is then the system entry and the prompt alone.
C17_EmptyHistory ==
    (conv.pc \notin {"idle", "start"} /\ (conv.raw.null \/ conv.raw.items = <<>>))
    => /\ conv.error = "" /\ conv.pc # "raised"
       /\ conv.history = <<>>
       /\ conv.pc \in {"built", "completed"} => conv.input = <<SystemEntry, PromptEntry>>

C17_Witness ==
    /\ conv.raw.null
    /\ conv.pc = "completed"
    /\ conv.input = <<SystemEntry, PromptEntry>>

\* the dispatch of the turn returned without an error and a text is to be sent
Succeeded(r, name) ==
    /\ r.resp.type = "function_call" /\ r.resp.name = name
    /\ Finished(r) /\ r.toolError = ""
    /\ r.reply.kind = "text"

\* C18: the reply of a successful get-balance holds no %amount%, the reply of
\* a successful send-money none of %amount%, %name%, %transaction_details%,
\* whatever template the model supplied.
C18_NoLeftoverPlaceholders ==
    \A t \in Slots :
        LET r == turns[t] IN
        /\ Succeeded(r, "getWalletBalance") => "%amount%" \notin Tokens(r.reply.text)
        /\ Succeeded(r, "sendMoney") =>
             Tokens(r.reply.text) \cap {"%amount%", "%name%", "%transaction_details%"} = {}

\* the tokens tooledConversation substitutes after a handler
Recognized(name) ==
    CASE name = "getWalletBalance" -> {"%amount%"}
      [] name = "sendMoney" -> {"%amount%", "%name%", "%transaction_details%"}
      [] OTHER -> {}

\* C19: in the reply of a successful dispatch every token of the model's text
\* that the dispatched tool does not substitute stands where it stood, and for
\* changeEmail, changeNicename and continueConversation the text is sent as
\* the model supplied it.
C19_PlaceholderPassThrough ==
    \A t \in Slots :
        LET r == turns[t]
            supplied == r.resp.args.continueConversation IN
        \A name \in CallNames :
            Succeeded(r, name) =>
                /\ Len(r.reply.text) = Len(supplied)
                /\ \A i \in 1..Len(supplied) :
                      supplied[i] \notin Recognized(name) => r.reply.text[i] = supplied[i]
                /\ r.pc = "done" => r.sent = <<r.reply>>

C19_Witness ==
    \E t \in Slots :
        LET r == turns[t] IN
        /\ Succeeded(r, "changeEmail")
        /\ r.pc = "done"
        /\ Called(r, "tool.updateUser")
        /\ r.sent = <<Text(r.from, <<"%amount%", "%name%", "%foo%", "%amount%">>)>>

\* what a step of changeEmail / changeNicename does to the user table
ProfileFieldStep ==
    \A t \in Slots :
        LET r == turns[t]
            a == r.args.idWa
            supplied == r.resp.args IN
        /\ (r.pc \in {"changeEmail", "changeNicename"} /\ ~users[a].exists)
           => /\ users' = users
              /\ turns'[t].toolError = "User not found"
              /\ Finished(turns'[t])
        /\ r.pc = "changeEmailUpdate"
           => /\ a = r.from
              /\ users' = [users EXCEPT ![a].email =
                              IF supplied.email # <<>> THEN supplied.email ELSE @]
        /\ r.pc = "changeNicenameUpdate"
           => /\ a = r.from
              /\ users' = [users EXCEPT ![a].nicename =
                              IF supplied.nicename # <<>> THEN supplied.nicename ELSE @]

\* a dispatch that ended in 'User not found' made the lookup and nothing else
NotFoundWritesNothing ==
    \A t \in Slots :
        LET r == turns[t] IN
        (r.resp.name \in {"changeEmail", "changeNicename"} /\ r.toolError = "User not found")
        => /\ ToolOps(r) = <<"tool.findUser">>
           /\ ~users[r.args.idWa].exists

\* C20: changeEmail (changeNicename) for an actor without a profile fails with
\* 'User not found' and writes nothing; for an existing profile it writes the
\* email (the name) of the actor's row and leaves the other field, the wallet
\* and every other row as they were.
C20_ProfileFieldChange == [][ProfileFieldStep]_vars /\ []NotFoundWritesNothing

C20_Witness ==
    \E t \in Slots :
        LET r == turns[t] IN
        /\ r.pc = "done"
        /\ r.resp.name = "changeEmail"
        /\ r.toolError = "User not found"
        /\ r.sent = <<Text(r.from, Apology)>>
        /\ \E h \in Handles : users[h].exists /\ users[h].email = <<"b@y">>

\* the recipient of the dispatch has been resolved: the transfer is next or done
RecipientResolved(r) ==
    IsSendMoney(r) /\ (r.pc \in {"smSend", "smRebalance"} \/ ToolCalled(r, "sendToken"))

\* C22: send-money creates a profile iff the lookup found none for the
\* recipient handle and generates, funds and persists a wallet iff the row
\* found had no wallet; a recipient with a stored wallet gets no creation, no
\* generation, no funding, and the transfer targets the stored address.
C22_RecipientResolution ==
    \A t \in Slots :
        LET r == turns[t]
            fresh == r.recipient.wallet = 0 IN
        /\ IsSendMoney(r) =>
              /\ ToolCalled(r, "tool.createUser") => ~r.recipient.exists
              /\ ToolCalled(r, "generateWallet") => fresh
              /\ ToolCalled(r, "fundWallet") => fresh
              /\ ToolCalled(r, "tool.updateUserWallet") => fresh
        /\ RecipientResolved(r) =>
              /\ ToolCalled(r, "tool.createUser") <=> ~r.recipient.exists
              /\ ToolCalled(r, "generateWallet") <=> fresh
              /\ ToolCalled(r, "fundWallet") <=> fresh
              /\ ToolCalled(r, "tool.updateUserWallet") <=> fresh
              /\ ~fresh => r.recipientWalletAddress = r.recipient.wallet
              /\ fresh => r.recipientWalletAddress = r.wallet
              /\ r.recipientWalletAddress # 0

C22_Witness ==
    \E t \in Slots :
        LET r == turns[t] IN
        /\ IsSendMoney(r)
        /\ r.pc = "done" /\ r.toolError = ""
        /\ r.recipient.exists /\ r.recipient.wallet # 0
        /\ r.args.contactNumber # r.from
        /\ ToolOps(r) = <<"tool.findUser", "getTokenBalance", "tool.findUser",
                          "sendToken", "getTokenBalance">>
        /\ tokenBal[r.recipient.wallet] = FundAmount + r.args.amount

\* the calls of a turn from its startTyping on
FromTyping(r) == DropThrough(r.calls, "startTyping")

OnboardingCalls(from) ==
    <<Ev("complete", "onboarding"), Ev("updateUser", from), Ev("sendText", from)>>

C24_SingleConsumption ==
    \A t \in Slots :
        LET r == turns[t] IN
        /\ Count(r, "complete") <= 1
        /\ Count(r, "handler") <= 1
        /\ Count(r, "sendToken") <= 1
        /\ Called(r, "handler") => Called(r, "complete")

C24_Witness ==
    \E t \in Slots :
        LET r == turns[t] IN
        /\ r.pc = "done" /\ r.outcome = "threw"
        /\ r.error = "completion unreachable"
        /\ Count(r, "complete") = 1
        /\ r.mode = "OPERATIONAL"

\* the webhook generated a wallet for the sender in this turn
SenderWalletGenerated(r) ==
    \E i \in 1..Len(r.calls) : r.calls[i] = Ev("generateWallet", "webhook")

\* C25 as stated: a turn that is an ONBOARDING turn or is answered with plain
\* text generates and funds no wallet for its sender.
C25_LazySenderWallet ==
    \A t \in Slots :
        LET r == turns[t] IN
        (r.mode = "ONBOARDING" \/ r.resp.type = "message")
        => ~SenderWalletGenerated(r)

\* C25 amended: the sender's wallet is generated, funded and stored at the
\* head of the first turn whose sender row has none, before the gate and
\* whatever the turn is about; a sender with a stored wallet gets no new one.
C25_EagerSenderWallet ==
    \A t \in Slots :
        LET r == turns[t] IN
        /\ SenderWalletGenerated(r) => r.user.wallet = 0
        /\ PastGate(r) =>
              /\ SenderWalletGenerated(r) <=> r.user.wallet = 0
              /\ r.user.wallet = 0 =>
                    /\ FirstAt(r, "generateWallet") < FirstAt(r, "fundWallet")
                    /\ FirstAt(r, "fundWallet") < FirstAt(r, "updateUserWallet")
                    /\ FirstAt(r, "updateUserWallet") < FirstAt(r, "startTyping")

C25_Witness ==
    \E t \in Slots :
        LET r == turns[t] IN
        /\ r.mode = "ONBOARDING"
        /\ r.pc = "done" /\ r.outcome = "returned"
        /\ SenderWalletGenerated(r)
        /\ ~Called(r, "createUser")
        /\ Called(r, "updateUserWallet")
        /\ tokenBal[r.wallet] = FundAmount

\* C26: a handler (and with it send-money's funding and transfer) runs only
\* in a turn whose sender row had a non-empty name and a non-empty email when
\* the gate was evaluated.
C26_ToolGating ==
    \A t \in Slots :
        LET r == turns[t] IN
        (\/ Called(r, "handler")
         \/ \E i \in 1..Len(r.calls) :
               r.calls[i] \in {Ev("fundWallet", "tool"), Ev("sendToken", "tool")})
        => /\ r.mode = "OPERATIONAL"
           /\ r.user.nicename # <<>>
           /\ r.user.email # <<>>

C26_Witness ==
    \E t \in Slots :
        LET r == turns[t] IN
        /\ IsSendMoney(r)
        /\ r.pc = "done" /\ r.toolError = ""
        /\ Called(r, "sendToken")
        /\ r.user.nicename = <<"Ana">>
        /\ r.user.email = <<"a@x">>

\* the transfer of the dispatch went through
Transferred(r) ==
    /\ IsSendMoney(r)
    /\ ToolCalled(r, "sendToken")
    /\ ToolOps(r)[Len(ToolOps(r))] # "sendToken" \/ r.pc = "smRebalance"

\* C27: a send-money turn that ended with the apology sent has executed no
\* sender-to-recipient transfer.
C27_ApologyImpliesNoTransfer ==
    \A t \in Slots :
        LET r == turns[t] IN
        (IsSendMoney(r) /\ r.pc = "done" /\ r.sent = <<Text(r.from, Apology)>>)
        => ~Transferred(r)

\* C28: an OPERATIONAL turn that returns has sent one message and what it
\* handed to sendText is a non-empty text.
C28_ReplyWellFormed ==
    \A t \in Slots :
        LET r == turns[t] IN
        (r.mode = "OPERATIONAL" /\ r.pc = "done" /\ r.outcome = "returned")
        => /\ Len(r.sent) = 1
           /\ r.sent[1].kind = "text"
           /\ r.sent[1].text # <<>>

\* the step in which a sendMoney turn leaves its balance check
LeavesBalanceCheck(t) ==
    turns[t].pc = "smBalance" /\ turns'[t].pc # "smBalance"

\* a sendMoney turn that passed its balance check and has not reached the
\* transfer of CryptoService.sendToken
BetweenCheckAndTransfer(r) ==
    /\ IsSendMoney(r)
    /\ r.pc \in {"smRecipient", "smRegister", "smGenWallet", "smFund",
                 "smSaveWallet", "smSend", "smTransfer"}

\* C21: check-then-act on the balance.  The balance check of sendMoney is
\* decided by the on-chain balance read at that moment alone: it passes
\* exactly when that balance covers the amount, whatever the other turn in
\* flight has already checked, and it reserves nothing (the chain balance is
\* unchanged by the check).
C21_CheckThenAct ==
    [][\A t \in Racers :
        LeavesBalanceCheck(t) =>
            LET w == turns[t].tuser.wallet
                a == turns[t].args.amount
                r == turns'[t] IN
            /\ tokenBal' = tokenBal
            /\ \/ r.toolError \in {"TypeError", "Error getting token balance"}
               \/ /\ r.balance = tokenBal[w]
                  /\ r.pc = "smRecipient" <=> tokenBal[w] >= a
                  /\ r.toolError = "Insufficient balance" <=> tokenBal[w] < a]_vars

\* two sendMoney turns of one sender have both read the pre-transfer balance
\* and both passed the check, and the balance covers only one of the amounts
C21_Witness ==
    /\ turns[1].from = turns[2].from
    /\ \A t \in Racers :
        /\ BetweenCheckAndTransfer(turns[t])
        /\ turns[t].balance = FundAmount
        /\ turns[t].args.amount <= FundAmount
    /\ tokenBal[SenderWallet] = FundAmount
    /\ turns[1].args.amount + turns[2].args.amount > FundAmount

\* the transfer of a turn was mined
Mined(r) == \E i \in 1..Len(r.calls) : r.calls[i] = Ev("transfer", "mined")

\* tokens the mined transfers of the two turns moved out of / into wallet w
MovedOut(w) ==
    LET Amt(t) == IF /\ Mined(turns[t]) /\ turns[t].tuser.wallet = w
                     /\ turns[t].recipientWalletAddress # w
                  THEN turns[t].args.amount ELSE 0 IN
    Amt(1) + Amt(2)
MovedIn(w) ==
    LET Amt(t) == IF /\ Mined(turns[t]) /\ turns[t].tuser.wallet # w
                     /\ turns[t].recipientWalletAddress = w
                  THEN turns[t].args.amount ELSE 0 IN
    Amt(1) + Amt(2)

Logged(r, e) == \E i \in 1..Len(r.calls) : r.calls[i] = e
One(b) == IF b THEN 1 ELSE 0

\* profiles a turn created for handle h: as the sender's row at the head of
\* the turn, as the recipient's row in sendMoney
ProfilesCreated(r, h) ==
    One(Logged(r, Ev("createUser", h)) /\ r.error # "Unique constraint")
    + One(Logged(r, Ev("tool.createUser", h)) /\ r.toolError # "Unique constraint")

\* wallets a turn generated and bootstrap-funded for handle h
WalletsBootstrapped(r, h) ==
    One(/\ r.from = h
        /\ Logged(r, Ev("fundWallet", "webhook"))
        /\ r.error # "Error sending tokens")
    + One(/\ IsSendMoney(r)
          /\ r.args.contactNumber = h
          /\ Logged(r, Ev("fundWallet", "tool"))
          /\ r.toolError # "Error sending tokens")

\* C30: unique recipient bootstrap under concurrency.  For every handle the
\* two turns in flight together create at most one profile and generate and
\* bootstrap-fund at most one wallet.
C30_UniqueBootstrap ==
    \A h \in Handles :
        /\ ProfilesCreated(turns[1], h) + ProfilesCreated(turns[2], h) <= 1
        /\ WalletsBootstrapped(turns[1], h) + WalletsBootstrapped(turns[2], h) <= 1


====
